---- MODULE Spec2Model ----
(***************************************************************************)
(* Real-time presence and room broadcast of the task tracker               *)
(* (socket/socketHandler.js, kept here as src/unnamed/part_001).           *)
(*                                                                         *)
(* The state is the two module-level Maps of the handler (activeUsers,     *)
(* userSessions), the room membership that socket.io keeps for the         *)
(* namespace, the set of connected sockets, and the server clock.  Every   *)
(* handler registered in io.on("connection") is one action; the            *)
(* setInterval callback is the action Sweep.  outbox holds the messages    *)
(* the last handler emitted, each with the set of sockets it reaches.      *)
(***************************************************************************)
EXTENDS Integers, Sequences, FiniteSets, TLC

VARIABLES
    activeUsers,   \* Map userId -> presence record, as a sequence in insertion order
    userSessions,  \* Map userId -> Set of socket ids
    rooms,         \* socket.io room membership: set of <<room name, socket id>>
    connected,     \* sockets that are connected to the namespace
    issued,        \* socket ids the transport has handed out so far
    now,           \* server clock, in milliseconds
    sweepDue,      \* the interval timer has expired and its callback has not run yet
    outbox,        \* messages emitted by the last handler, in emission order
    last,          \* the handler that ran last: its socket, its argument, the socket's rooms before
    uncaught,      \* a handler has thrown: the exception left the handler uncaught
    closing,       \* SIGTERM has been handled: server.close() has been called
    tasks,         \* the Task collection: task id -> document
    stats          \* the stats subdocument of every User document

vars == <<activeUsers, userSessions, rooms, connected, issued, now, sweepDue,
          outbox, last, uncaught, closing, tasks, stats>>

----------------------------------------------------------------------------
(* Bounds of the model *)

MaxTicks == 8

\* the statistics counters are followed up to this value
MaxStat == 1

Users == {"u1", "u2"}

Sockets == {"s1", "s2", "s3"}

\* socket.user.id of an authenticated socket
SocketUser(c) == IF c \in {"s1", "s2"} THEN "u1" ELSE "u2"

\* socket.user: the record the authentication middleware attached
Profile(u) ==
    [id |-> u, name |-> "name_" \o u, email |-> u \o "@mail", avatar |-> "avatar_" \o u]

----------------------------------------------------------------------------
(* JavaScript values that reach the handlers.  v is the value's string     *)
(* conversion, t its type.                                                 *)

Str(s) == [t |-> "string", v |-> s]

Num(s) == [t |-> "number", v |-> s]

Undefined == [t |-> "undefined", v |-> "undefined"]

Obj == [t |-> "object", v |-> "[object Object]"]

\* {}: an object without own properties
EmptyObj == [t |-> "object", v |-> "[object Object]", keys |-> 0]

Null == [t |-> "null", v |-> "null"]

\* an event sent without a payload object: destructuring it throws a TypeError
NoPayload == {Undefined, Null}

\* a string whose characters matter: the text of a comment
Text(chars) == [t |-> "string", chars |-> chars]

\* !x is false
Truthy(x) ==
    CASE x.t = "string"    -> x.v # ""
      [] x.t = "number"    -> x.v \notin {"0", "NaN"}
      [] x.t = "undefined" -> FALSE
      [] x.t = "null"      -> FALSE
      [] x.t = "boolean"   -> x.v = "true"
      [] OTHER             -> TRUE

TaskRoom_Bare(taskId) == taskId.v

\* `task_${taskId}`
TaskRoom(taskId) == "task_" \o taskId.v

\* `user_${socket.user.id}`
PersonalRoom(u) == "user_" \o u

\* Comment texts are sequences of characters
IsSpace(ch) == ch \in {" ", "\t", "\n"}

RECURSIVE TrimStart(_)
TrimStart(s) ==
    IF s # <<>> /\ IsSpace(Head(s)) THEN TrimStart(Tail(s)) ELSE s

RECURSIVE TrimEnd(_)
TrimEnd(s) ==
    IF s # <<>> /\ IsSpace(s[Len(s)]) THEN TrimEnd(SubSeq(s, 1, Len(s) - 1)) ELSE s

Trim_StartOnly(s) == TrimStart(s)

\* String.prototype.trim
Trim(s) == TrimEnd(TrimStart(s))

\* Number.prototype.toString, as the sequence of decimal digits
RECURSIVE DecimalString(_)
DecimalString(n) ==
    IF n < 10 THEN <<n>> ELSE Append(DecimalString(n \div 10), n % 10)

----------------------------------------------------------------------------
(* Inputs *)

TaskIdInputs == {Str("1"), Num("1"), Str("")}

\* { taskId, changes, type }: a complete update and one with each field missing
TaskUpdateInputs ==
    { [taskId |-> Str("1"), changes |-> Obj, type |-> Str("status")],
      [taskId |-> Str(""), changes |-> Obj, type |-> Str("status")],
      [taskId |-> Str("1"), changes |-> Undefined, type |-> Str("status")],
      [taskId |-> Str("1"), changes |-> Obj, type |-> Str("")],
      [taskId |-> Str("1"), changes |-> EmptyObj, type |-> Str("status")],
      Undefined }

\* { taskId, comment }
AddCommentInputs ==
    { [taskId |-> Str("1"), comment |-> Text(<<" ", "a", " ">>)],
      [taskId |-> Str("1"), comment |-> Text(<<" ">>)],
      [taskId |-> Str("1"), comment |-> Text(<<>>)],
      [taskId |-> Str(""), comment |-> Text(<<"a">>)],
      [taskId |-> Str("1"), comment |-> Undefined],
      [taskId |-> Str("1"), comment |-> Num("5")],
      Null }

\* { taskId, isTyping }
TypingInputs ==
    { [taskId |-> Str("1"), isTyping |-> TRUE],
      [taskId |-> Str(""), isTyping |-> FALSE],
      Undefined }

StatusInputs == {"online", "away", "paused"}

\* room ids a client picks to reach a personal channel
ChannelIdInputs == {Str("1"), Str("user_u1"), Str("user_u2")}

----------------------------------------------------------------------------
(* Program constants *)

\* 30 * 60 * 1000
Timeout == 30 * 60 * 1000

\* 5 * 60 * 1000
Interval == 5 * 60 * 1000

validStatuses_Lenient == {"online", "away", "busy", "offline", "paused"}

validStatuses == {"online", "away", "busy", "offline"}

----------------------------------------------------------------------------
(* Map operations on activeUsers *)

MapKeys(m) == {m[i].id : i \in 1..Len(m)}

MapHas(m, k) == k \in MapKeys(m)

MapGet(m, k) ==
    IF MapHas(m, k) THEN m[CHOOSE i \in 1..Len(m) : m[i].id = k] ELSE Undefined

MapSet_Push(m, k, rec) == Append(m, rec)

\* Map.prototype.set: an existing key keeps its position
MapSet(m, k, rec) ==
    IF MapHas(m, k)
    THEN [i \in 1..Len(m) |-> IF m[i].id = k THEN rec ELSE m[i]]
    ELSE Append(m, rec)

MapDelete(m, k) == SelectSeq(m, LAMBDA r : r.id # k)

----------------------------------------------------------------------------
(* socket.io audiences *)

Members(rs, room) == {c \in Sockets : <<room, c>> \in rs}

ToSender_Everyone(c) == connected \cup {c}

\* socket.emit
ToSender(c) == {c}

\* socket.broadcast.emit
Broadcast(c, conn) == conn \ {c}

\* io.emit
IoEmit(conn) == conn

\* socket.to(room).emit
SocketTo(c, rs, room) == Members(rs, room) \ {c}

\* io.to(room).emit
IoTo(rs, room) == Members(rs, room)

Msg(ev, to, body) == [ev |-> ev, to |-> to, body |-> body]

----------------------------------------------------------------------------
Init ==
    /\ activeUsers = <<>>
    /\ userSessions = [u \in {} |-> {}]
    /\ rooms = {}
    /\ connected = {}
    /\ issued = {}
    /\ now = 0
    /\ sweepDue = FALSE
    /\ outbox = <<>>
    /\ last = [op |-> "init", c |-> "", arg |-> Undefined, pre |-> {}]
    /\ uncaught = FALSE
    /\ closing = FALSE
    /\ tasks = [i \in {} |-> {}]
    /\ stats = [u \in Users |-> [tasksCreated |-> 0, tasksCompleted |-> 0]]

\* the rooms socket c is in
RoomsOf(c) == {rc[1] : rc \in {x \in rooms : x[2] = c}}

\* op ran for socket c with argument arg; pre is the set of rooms c was in before
Ran(op, c, arg) ==
    [op |-> op, c |-> c, arg |-> arg, pre |-> IF c = "" THEN {} ELSE RoomsOf(c)]

\* the sender summary built inline by taskUpdate and addComment
Summary(c) ==
    [id |-> SocketUser(c), name |-> Profile(SocketUser(c)).name,
     avatar |-> Profile(SocketUser(c)).avatar]

----------------------------------------------------------------------------
(* authenticateSocket: the middleware every connection attempt passes first *)

\* What a connection attempt presents: the token of socket.handshake.auth (none, one
\* that jwt.verify rejects, or a valid one) and what User.findById then finds
Handshakes ==
    { [token |-> "none", user |-> "active"],
      [token |-> "invalid", user |-> "active"],
      [token |-> "valid", user |-> "missing"],
      [token |-> "valid", user |-> "inactive"],
      [token |-> "valid", user |-> "error"],
      [token |-> "valid", user |-> "active"] }

GoodHandshake == [token |-> "valid", user |-> "active"]

Authenticated_IgnoresActive(h) ==
    h.token = "valid" /\ h.user \in {"active", "inactive"}

\* next() is called without an error
Authenticated(h) ==
    IF h.token = "none"
    THEN FALSE                            \* !token
    ELSE IF h.token # "valid"
    THEN FALSE                            \* jwt.verify throws
    ELSE IF h.user = "error"
    THEN FALSE                            \* User.findById rejects
    ELSE IF h.user = "missing" \/ h.user # "active"
    THEN FALSE                            \* !user || !user.isActive
    ELSE TRUE

----------------------------------------------------------------------------
(* io.on("connection") *)

PresenceRecord(c) ==
    [id |-> SocketUser(c),
     name |-> Profile(SocketUser(c)).name,
     email |-> Profile(SocketUser(c)).email,
     avatar |-> Profile(SocketUser(c)).avatar,
     socketId |-> c,
     connectedAt |-> now,
     status |-> "online"]

SessionsAdd(c) ==
    LET u == SocketUser(c)
        base == IF u \in DOMAIN userSessions
                THEN userSessions
                ELSE userSessions @@ (u :> {})
    IN  [base EXCEPT ![u] = @ \cup {c}]

Connection(c, h) ==
    /\ ~uncaught
    /\ UNCHANGED <<closing, tasks, stats>>
    /\ ~closing
    /\ c \notin issued
    /\ issued' = issued \cup {c}
    /\ connected' = connected \cup {c}
    /\ activeUsers' = MapSet(activeUsers, SocketUser(c), PresenceRecord(c))
    /\ userSessions' = SessionsAdd(c)
    /\ rooms' = rooms \cup {<<PersonalRoom(SocketUser(c)), c>>}
    /\ outbox' =
         << Msg("userConnected", Broadcast(c, connected'),
                [user |-> MapGet(activeUsers', SocketUser(c)), timestamp |-> now]),
            Msg("activeUsers", ToSender(c), [users |-> activeUsers']) >>
    /\ last' = Ran("connection", c, h)
    /\ UNCHANGED <<now, sweepDue, uncaught>>

\* next(new Error(...)): the connection is refused, no handler is registered
Refuse(c, h) ==
    /\ ~uncaught
    /\ UNCHANGED <<closing, tasks, stats>>
    /\ ~closing
    /\ c \notin issued
    /\ outbox' = <<>>
    /\ last' = Ran("refused", c, h)
    /\ UNCHANGED <<activeUsers, userSessions, rooms, connected, issued, now, sweepDue,
                   uncaught>>

\* a connection attempt: io.use(authenticateSocket), then the connection handler
Handshake(c, h) ==
    IF Authenticated(h) THEN Connection(c, h) ELSE Refuse(c, h)

----------------------------------------------------------------------------
(* socket.on("joinTaskRoom") and socket.on("leaveTaskRoom") *)

RoomsAfterJoin_Toggle(c, room) ==
    IF <<room, c>> \in rooms THEN rooms \ {<<room, c>>} ELSE rooms \cup {<<room, c>>}

\* socket.join(`task_${taskId}`)
RoomsAfterJoin(c, room) == rooms \cup {<<room, c>>}

\* socket.leave(`task_${taskId}`)
RoomsAfterLeave(c, room) == rooms \ {<<room, c>>}

JoinTaskRoom(c, taskId) ==
    /\ ~uncaught
    /\ UNCHANGED <<closing, tasks, stats>>
    /\ c \in connected
    /\ rooms' = RoomsAfterJoin(c, TaskRoom(taskId))
    /\ outbox' =
         << Msg("userJoinedTask", SocketTo(c, rooms', TaskRoom(taskId)),
                [user |-> MapGet(activeUsers, SocketUser(c)), taskId |-> taskId,
                 timestamp |-> now]) >>
    /\ last' = Ran("joinTaskRoom", c, taskId)
    /\ UNCHANGED <<activeUsers, userSessions, connected, issued, now, sweepDue, uncaught>>

LeaveTaskRoom(c, taskId) ==
    /\ ~uncaught
    /\ UNCHANGED <<closing, tasks, stats>>
    /\ c \in connected
    /\ rooms' = RoomsAfterLeave(c, TaskRoom(taskId))
    /\ outbox' =
         << Msg("userLeftTask", SocketTo(c, rooms', TaskRoom(taskId)),
                [user |-> MapGet(activeUsers, SocketUser(c)), taskId |-> taskId,
                 timestamp |-> now]) >>
    /\ last' = Ran("leaveTaskRoom", c, taskId)
    /\ UNCHANGED <<activeUsers, userSessions, connected, issued, now, sweepDue, uncaught>>

----------------------------------------------------------------------------
(* socket.on("taskUpdate") *)

\* const { ... } = data throws when data is undefined or null
Destructures(data) == data \notin NoPayload

\* the handler passes its validation: !taskId || !changes || !type is false
TaskUpdateValid(data) ==
    Destructures(data) /\ Truthy(data.taskId) /\ Truthy(data.changes) /\ Truthy(data.type)

TaskUpdateAudience_WholeRoom(c, room) == IoTo(rooms, room)

\* socket.to(`task_${taskId}`)
TaskUpdateAudience(c, room) == SocketTo(c, rooms, room)

TaskUpdate(c, data) ==
    /\ ~uncaught
    /\ UNCHANGED <<closing, tasks, stats>>
    /\ c \in connected
    /\ uncaught' = ~Destructures(data)
    /\ outbox' =
         IF ~Destructures(data)
         THEN <<>>
         ELSE IF ~TaskUpdateValid(data)
         THEN << Msg("error", ToSender(c), [message |-> "invalid task update"]) >>
         ELSE << Msg("taskUpdated", TaskUpdateAudience(c, TaskRoom(data.taskId)),
                     [taskId |-> data.taskId, changes |-> data.changes,
                      type |-> data.type, updatedBy |-> Summary(c),
                      timestamp |-> now]) >>
    /\ last' = Ran("taskUpdate", c, data)
    /\ UNCHANGED <<activeUsers, userSessions, rooms, connected, issued, now, sweepDue>>

----------------------------------------------------------------------------
(* socket.on("addComment") *)

\* !comment is false: a non-empty string, or another truthy value
CommentTruthy(x) == IF x.t = "string" THEN x.chars # <<>> ELSE Truthy(x)

\* comment.trim() throws a TypeError: the first two tests passed and comment has no trim
AddCommentThrows(data) ==
    \/ ~Destructures(data)
    \/ Truthy(data.taskId) /\ CommentTruthy(data.comment)
          /\ data.comment.t # "string"

\* the handler passes its validation: !taskId || !comment || !comment.trim() is false
AddCommentValid(data) ==
    /\ Destructures(data)
    /\ Truthy(data.taskId)
    /\ CommentTruthy(data.comment)
    /\ data.comment.t = "string"
    /\ Trim(data.comment.chars) # <<>>

AddCommentAudience_Others(c, room) == SocketTo(c, rooms, room)

\* io.to(`task_${taskId}`)
AddCommentAudience(c, room) == IoTo(rooms, room)

AddComment(c, data) ==
    /\ ~uncaught
    /\ UNCHANGED <<closing, tasks, stats>>
    /\ c \in connected
    /\ uncaught' = AddCommentThrows(data)
    /\ outbox' =
         IF AddCommentThrows(data)
         THEN <<>>
         ELSE IF ~AddCommentValid(data)
         THEN << Msg("error", ToSender(c), [message |-> "empty comment"]) >>
         ELSE << Msg("newComment", AddCommentAudience(c, TaskRoom(data.taskId)),
                     [taskId |-> data.taskId,
                      comment |-> [id |-> DecimalString(now),
                                   text |-> Trim(data.comment.chars),
                                   user |-> Summary(c),
                                   createdAt |-> now]]) >>
    /\ last' = Ran("addComment", c, data)
    /\ UNCHANGED <<activeUsers, userSessions, rooms, connected, issued, now, sweepDue>>

----------------------------------------------------------------------------
(* socket.on("typing") *)

Typing(c, data) ==
    /\ ~uncaught
    /\ UNCHANGED <<closing, tasks, stats>>
    /\ c \in connected
    /\ uncaught' = ~Destructures(data)
    /\ outbox' =
         IF ~Destructures(data)
         THEN <<>>
         ELSE
         << Msg("userTyping", SocketTo(c, rooms, TaskRoom(data.taskId)),
                [user |-> [id |-> SocketUser(c), name |-> Profile(SocketUser(c)).name],
                 taskId |-> data.taskId, isTyping |-> data.isTyping,
                 timestamp |-> now]) >>
    /\ last' = Ran("typing", c, data)
    /\ UNCHANGED <<activeUsers, userSessions, rooms, connected, issued, now, sweepDue>>

----------------------------------------------------------------------------
(* socket.on("updateStatus") *)

WithStatus(m, k, status) ==
    [i \in 1..Len(m) |-> IF m[i].id = k THEN [m[i] EXCEPT !.status = status] ELSE m[i]]

UpdateStatus(c, status) ==
    /\ ~uncaught
    /\ UNCHANGED <<closing, tasks, stats>>
    /\ c \in connected
    /\ IF status \notin validStatuses
       THEN /\ outbox' = << Msg("error", ToSender(c), [message |-> "invalid status"]) >>
            /\ UNCHANGED activeUsers
       ELSE IF MapHas(activeUsers, SocketUser(c))
            THEN /\ activeUsers' = WithStatus(activeUsers, SocketUser(c), status)
                 /\ outbox' =
                      << Msg("userStatusChanged", Broadcast(c, connected),
                             [userId |-> SocketUser(c), status |-> status,
                              timestamp |-> now]) >>
            ELSE /\ outbox' = <<>>
                 /\ UNCHANGED activeUsers
    /\ last' = Ran("updateStatus", c, Str(status))
    /\ UNCHANGED <<userSessions, rooms, connected, issued, now, sweepDue, uncaught>>

----------------------------------------------------------------------------
(* socket.on("disconnect") *)

RoomsAfterClose_Kept(c) == rooms

\* socket.io takes a closing socket out of every room before it runs the handler
RoomsAfterClose(c) == {rc \in rooms : rc[2] # c}

SessionsAfterDelete_Clear(c) == [userSessions EXCEPT ![SocketUser(c)] = {}]

\* userSessions.get(socket.user.id).delete(socket.id)
SessionsAfterDelete(c) == [userSessions EXCEPT ![SocketUser(c)] = @ \ {c}]

NoSessionsLeft_OffByOne(c) ==
    Cardinality(SessionsAfterDelete(c)[SocketUser(c)]) <= 1

\* userSessions.get(socket.user.id).size === 0
NoSessionsLeft(c) == SessionsAfterDelete(c)[SocketUser(c)] = {}

SessionsWithout(gone) == [u \in DOMAIN userSessions \ gone |-> userSessions[u]]

Disconnect(c) ==
    /\ ~uncaught
    /\ UNCHANGED <<closing, tasks, stats>>
    /\ c \in connected
    /\ connected' = connected \ {c}
    /\ rooms' = RoomsAfterClose(c)
    /\ IF SocketUser(c) \in DOMAIN userSessions
       THEN IF NoSessionsLeft(c)
            THEN /\ userSessions' = SessionsWithout({SocketUser(c)})
                 /\ activeUsers' = MapDelete(activeUsers, SocketUser(c))
                 /\ outbox' =
                      << Msg("userDisconnected", Broadcast(c, connected'),
                             [userId |-> SocketUser(c), timestamp |-> now]) >>
            ELSE /\ userSessions' = SessionsAfterDelete(c)
                 /\ outbox' = <<>>
                 /\ UNCHANGED activeUsers
       ELSE /\ outbox' = <<>>
            /\ UNCHANGED <<activeUsers, userSessions>>
    /\ last' = Ran("disconnect", c, Undefined)
    /\ UNCHANGED <<issued, now, sweepDue, uncaught>>

----------------------------------------------------------------------------
(* setInterval callback: the idle reaper *)

Expired_AtTimeout(rec) == now - rec.connectedAt >= Timeout

\* now - userData.connectedAt > timeout
Expired(rec) == now - rec.connectedAt > Timeout

\* the entries of activeUsers the loop finds expired, in iteration order
ExpiredEntries == SelectSeq(activeUsers, Expired)

NoticeEntries_All == activeUsers

\* the entries the loop emits userDisconnected for: the emit is inside the if
NoticeEntries == ExpiredEntries

ReapedSessions_Kept(gone) == userSessions

\* userSessions.delete(userId), for every expired entry
ReapedSessions(gone) == SessionsWithout(gone)

TimeoutNotice(rec) ==
    Msg("userDisconnected", IoEmit(connected),
        [userId |-> rec.id, timestamp |-> now, reason |-> "timeout"])

\* server.close() has called back: every connection has ended, process.exit(0) ran
Exited == closing /\ connected = {}

RoomsAfterSweep_Left(gone) == {rc \in rooms : SocketUser(rc[2]) \notin gone}

\* the loop touches the two Maps only: no socket leaves a room or is closed
RoomsAfterSweep(gone) == rooms

Sweep ==
    /\ ~uncaught
    /\ UNCHANGED <<closing, tasks, stats>>
    /\ ~Exited
    /\ sweepDue
    /\ sweepDue' = FALSE
    /\ activeUsers' = SelectSeq(activeUsers, LAMBDA r : ~Expired(r))
    /\ userSessions' = ReapedSessions(MapKeys(ExpiredEntries))
    /\ outbox' = [i \in 1..Len(NoticeEntries) |-> TimeoutNotice(NoticeEntries[i])]
    /\ rooms' = RoomsAfterSweep(MapKeys(ExpiredEntries))
    /\ last' = Ran("sweep", "", Undefined)
    /\ UNCHANGED <<connected, issued, now, uncaught>>

\* The clock reaches the next expiry of the interval timer
Tick ==
    /\ ~uncaught
    /\ UNCHANGED <<closing, tasks, stats>>
    /\ ~Exited
    /\ ~sweepDue
    /\ now < MaxTicks * Interval
    /\ now' = now + Interval
    /\ sweepDue' = TRUE
    /\ outbox' = <<>>
    /\ last' = Ran("tick", "", Undefined)
    /\ UNCHANGED <<activeUsers, userSessions, rooms, connected, issued, uncaught>>

\* Time passes in steps of half a timer period; the timer expires at every multiple
\* of the period
Elapse ==
    /\ ~uncaught
    /\ UNCHANGED <<closing, tasks, stats>>
    /\ ~Exited
    /\ ~sweepDue
    /\ now < MaxTicks * Interval
    /\ now' = now + Interval \div 2
    /\ sweepDue' = (now' % Interval = 0)
    /\ outbox' = <<>>
    /\ last' = Ran("elapse", "", Undefined)
    /\ UNCHANGED <<activeUsers, userSessions, rooms, connected, issued, uncaught>>

----------------------------------------------------------------------------
(* process.on("SIGTERM"): server.close(() => process.exit(0)).  The http server stops *)
(* accepting connections and calls back once the open ones have ended; the handle   *)
(* of the interval timer is not kept, and nothing clears it.                        *)

Sigterm ==
    /\ ~uncaught
    /\ ~closing
    /\ closing' = TRUE
    /\ outbox' = <<>>
    /\ last' = Ran("SIGTERM", "", Undefined)
    /\ UNCHANGED <<activeUsers, userSessions, rooms, connected, issued, now, sweepDue,
                   uncaught, tasks, stats>>

----------------------------------------------------------------------------
(* routes/tasks.js: the REST handlers that change a task.  req.user is the user   *)
(* the auth middleware attached; a request carries the id of the path, the body   *)
(* and which await of the handler, if any, the database rejects.                  *)

\* the ids a stored task can have; "2" is a well-formed id of no task, "x" is malformed
TaskIds == {"1"}

IdInputs == {"1", "2", "x"}

\* param("id").isMongoId()
IsMongoId(id) == id \in {"1", "2"}

\* req.user.role
Role(u) == IF u = "u2" THEN "admin" ELSE "user"

Bodies ==
    { [title |-> "t", status |-> "todo", assignedTo |-> "none"],
      [title |-> "t", status |-> "done", assignedTo |-> "u2"],
      [title |-> "", status |-> "todo", assignedTo |-> "none"] }

Faults == {"none", "save", "stats"}

\* validateTask leaves validationResult(req) empty
BodyValid(body) ==
    /\ body.title # ""
    /\ body.status \in {"todo", "in-progress", "review", "done"}

\* req.app.get(name): Index.js creates io and hands it to socketHandler only; it never
\* calls app.set, so every setting a route asks for is undefined
AppGet(name) == Undefined

\* req.app.get("io").emit(ev, body): a TypeError when the setting is undefined
EmitThrows == AppGet("io") = Undefined

RestNotice(ev, body) ==
    IF EmitThrows THEN <<>> ELSE << Msg(ev, IoEmit(connected), body) >>

MayChange_Anyone(u, id) == TRUE

\* the task is the requester's own, or the requester is an admin
MayChange(u, id) == tasks[id].createdBy = u \/ Role(u) = "admin"

Served(op, req, status) ==
    [op |-> op, c |-> "", arg |-> req, pre |-> {}, status |-> status]

\* the id the database gives a new document
NewId == CHOOSE id \in TaskIds : id \notin DOMAIN tasks

Bump(u, field) == [stats EXCEPT ![u][field] = @ + 1]

\* router.post("/")
RestPost(u, body, fault) ==
    LET req == [user |-> u, id |-> "", body |-> body, fault |-> fault]
        doc == [createdBy |-> u, status |-> body.status, assignedTo |-> body.assignedTo]
    IN
    /\ ~uncaught
    /\ ~closing
    /\ TaskIds \ DOMAIN tasks # {}
    /\ stats[u].tasksCreated < MaxStat
    /\ IF ~BodyValid(body)
       THEN /\ last' = Served("POST", req, 400)
            /\ outbox' = <<>>
            /\ UNCHANGED <<tasks, stats>>
       ELSE IF fault = "save"
       THEN /\ last' = Served("POST", req, 500)
            /\ outbox' = <<>>
            /\ UNCHANGED <<tasks, stats>>
       ELSE /\ tasks' = tasks @@ (NewId :> doc)
            /\ IF fault = "stats"
               THEN /\ last' = Served("POST", req, 500)
                    /\ outbox' = <<>>
                    /\ UNCHANGED stats
               ELSE /\ stats' = Bump(u, "tasksCreated")
                    /\ outbox' = RestNotice("taskCreated",
                                      [task |-> [id |-> NewId, doc |-> doc],
                                       createdBy |-> Profile(u)])
                    /\ last' = Served("POST", req, IF EmitThrows THEN 500 ELSE 201)
    /\ UNCHANGED <<activeUsers, userSessions, rooms, connected, issued, now, sweepDue,
                   uncaught, closing>>

\* oldStatus !== "done" && newStatus === "done" && task.assignedTo
Completes(id, body) ==
    tasks[id].status # "done" /\ body.status = "done" /\ body.assignedTo # "none"

\* router.put("/:id")
RestPut(u, id, body, fault) ==
    LET req == [user |-> u, id |-> id, body |-> body, fault |-> fault]
        doc == [createdBy |-> tasks[id].createdBy, status |-> body.status,
                assignedTo |-> body.assignedTo]
    IN
    /\ ~uncaught
    /\ ~closing
    /\ IF ~IsMongoId(id) \/ ~BodyValid(body)
       THEN /\ last' = Served("PUT", req, 400)
            /\ outbox' = <<>>
            /\ UNCHANGED <<tasks, stats>>
       ELSE IF id \notin DOMAIN tasks
       THEN /\ last' = Served("PUT", req, 404)
            /\ outbox' = <<>>
            /\ UNCHANGED <<tasks, stats>>
       ELSE IF ~MayChange(u, id)
       THEN /\ last' = Served("PUT", req, 403)
            /\ outbox' = <<>>
            /\ UNCHANGED <<tasks, stats>>
       ELSE IF fault = "save"
       THEN /\ last' = Served("PUT", req, 500)
            /\ outbox' = <<>>
            /\ UNCHANGED <<tasks, stats>>
       ELSE /\ tasks' = [tasks EXCEPT ![id] = doc]
            /\ IF Completes(id, body) /\ fault = "stats"
               THEN /\ last' = Served("PUT", req, 500)
                    /\ outbox' = <<>>
                    /\ UNCHANGED stats
               ELSE /\ IF Completes(id, body)
                       THEN /\ stats[body.assignedTo].tasksCompleted < MaxStat
                            /\ stats' = Bump(body.assignedTo, "tasksCompleted")
                       ELSE UNCHANGED stats
                    /\ outbox' = RestNotice("taskUpdated",
                                      [task |-> [id |-> id, doc |-> doc],
                                       updatedBy |-> Profile(u), changes |-> body])
                    /\ last' = Served("PUT", req, IF EmitThrows THEN 500 ELSE 200)
    /\ UNCHANGED <<activeUsers, userSessions, rooms, connected, issued, now, sweepDue,
                   uncaught, closing>>

\* router.delete("/:id")
RestDelete(u, id, fault) ==
    LET req == [user |-> u, id |-> id, body |-> Undefined, fault |-> fault] IN
    /\ ~uncaught
    /\ ~closing
    /\ UNCHANGED stats
    /\ IF ~IsMongoId(id)
       THEN /\ last' = Served("DELETE", req, 400)
            /\ outbox' = <<>>
            /\ UNCHANGED tasks
       ELSE IF id \notin DOMAIN tasks
       THEN /\ last' = Served("DELETE", req, 404)
            /\ outbox' = <<>>
            /\ UNCHANGED tasks
       ELSE IF ~MayChange(u, id)
       THEN /\ last' = Served("DELETE", req, 403)
            /\ outbox' = <<>>
            /\ UNCHANGED tasks
       ELSE IF fault = "save"
       THEN /\ last' = Served("DELETE", req, 500)
            /\ outbox' = <<>>
            /\ UNCHANGED tasks
       ELSE /\ tasks' = [i \in DOMAIN tasks \ {id} |-> tasks[i]]
            /\ outbox' = RestNotice("taskDeleted", [taskId |-> id, deletedBy |-> Profile(u)])
            /\ last' = Served("DELETE", req, IF EmitThrows THEN 500 ELSE 200)
    /\ UNCHANGED <<activeUsers, userSessions, rooms, connected, issued, now, sweepDue,
                   uncaught, closing>>

----------------------------------------------------------------------------
(* The handlers that read or write the presence maps and the clock *)
NextPresence ==
    \/ \E c \in Sockets : Connection(c, GoodHandshake)
    \/ \E c \in Sockets, s \in StatusInputs : UpdateStatus(c, s)
    \/ \E c \in Sockets : Disconnect(c)
    \/ Sweep
    \/ Tick

(* The handlers that read or write room membership *)
NextRooms ==
    \/ \E c \in Sockets : Connection(c, GoodHandshake)
    \/ \E c \in Sockets, t \in TaskIdInputs : JoinTaskRoom(c, t)
    \/ \E c \in Sockets, t \in TaskIdInputs : LeaveTaskRoom(c, t)
    \/ \E c \in Sockets, d \in TaskUpdateInputs : TaskUpdate(c, d)
    \/ \E c \in Sockets, d \in AddCommentInputs : AddComment(c, d)
    \/ \E c \in Sockets, d \in TypingInputs : Typing(c, d)
    \/ \E c \in Sockets : Disconnect(c)

(* Connection attempts with every kind of handshake, and what connected sockets do *)
NextAuth ==
    \/ \E c \in Sockets, h \in Handshakes : Handshake(c, h)
    \/ \E c \in Sockets, t \in TaskIdInputs : JoinTaskRoom(c, t)
    \/ \E c \in Sockets : Disconnect(c)

(* Connections coming and going under the interval timer *)
NextReaper ==
    \/ \E c \in Sockets : Connection(c, GoodHandshake)
    \/ \E c \in Sockets : Disconnect(c)
    \/ Sweep
    \/ Tick

(* Connections and the interval timer around a shutdown request *)
NextShutdown ==
    \/ \E c \in Sockets : Connection(c, GoodHandshake)
    \/ \E c \in Sockets : Disconnect(c)
    \/ Sweep
    \/ Tick
    \/ Sigterm

(* The REST handlers, with clients connected and in the task's room *)
NextRest ==
    \/ \E c \in {"s1", "s3"} : Connection(c, GoodHandshake)
    \/ \E c \in {"s1", "s3"} : JoinTaskRoom(c, Str("1"))
    \/ \E u \in Users, b \in Bodies, f \in Faults : RestPost(u, b, f)
    \/ \E u \in Users, id \in IdInputs, b \in Bodies, f \in Faults : RestPut(u, id, b, f)
    \/ \E u \in Users, id \in IdInputs, f \in Faults : RestDelete(u, id, f)

(* Room events of connections that stay open across reaper sweeps *)
NextEvicted ==
    \/ \E c \in {"s1", "s3"} : Connection(c, GoodHandshake)
    \/ \E c \in {"s1", "s3"} : JoinTaskRoom(c, Str("1"))
    \/ \E c \in {"s1", "s3"} :
          TaskUpdate(c, [taskId |-> Str("1"), changes |-> Obj, type |-> Str("status")])
    \/ \E c \in {"s1", "s3"} :
          AddComment(c, [taskId |-> Str("1"), comment |-> Text(<<" ", "a", " ">>)])
    \/ \E c \in {"s1", "s3"} : Typing(c, [taskId |-> Str("1"), isTyping |-> TRUE])
    \/ Sweep
    \/ Tick

(* Connections made at and between the expiries of the timer *)
NextAges ==
    \/ \E c \in Sockets : Connection(c, GoodHandshake)
    \/ \E c \in Sockets : Disconnect(c)
    \/ Sweep
    \/ Elapse

(* Joins and leaves with room ids that name personal channels *)
NextChannels ==
    \/ \E c \in Sockets : Connection(c, GoodHandshake)
    \/ \E c \in Sockets, t \in ChannelIdInputs : JoinTaskRoom(c, t)
    \/ \E c \in Sockets, t \in ChannelIdInputs : LeaveTaskRoom(c, t)
    \/ \E c \in Sockets : Disconnect(c)

Next ==
    \/ NextPresence \/ NextRooms \/ NextAuth \/ NextReaper \/ NextShutdown \/ NextRest
    \/ NextEvicted \/ NextAges \/ NextChannels

\* Every handler and the timer, in any order
Spec == Init /\ [][Next]_vars

\* Connections, status changes and the reaper over the whole timeout period;
\* room events leave activeUsers, userSessions and the clock unchanged
SpecPresence == Init /\ [][NextPresence]_vars

\* Connections and room events; the reaper leaves room membership unchanged
SpecRooms == Init /\ [][NextRooms]_vars

\* Accepted and refused connection attempts
SpecAuth == Init /\ [][NextAuth]_vars

\* Task mutations over REST while clients are connected
SpecRest == Init /\ [][NextRest]_vars

\* Clients that connect, join a task room and go on sending while the reaper runs
SpecEvicted == Init /\ [][NextEvicted]_vars

\* Presence records of every age, in half periods, under the reaper
SpecAges == Init /\ [][NextAges]_vars

\* Clients that try to enter or leave personal channels through the task room events
SpecChannels == Init /\ [][NextChannels]_vars

\* The server receives SIGTERM at some moment of its run
SpecShutdown == Init /\ [][NextShutdown]_vars

\* The timer keeps expiring and the event loop runs its callback each time; clients
\* connect and disconnect when they please
SpecReaper ==
    Init /\ [][NextReaper]_vars /\ WF_vars(Tick) /\ WF_vars(Sweep)

----------------------------------------------------------------------------
(* Properties *)

SocketsOf(u) == {c \in Sockets : SocketUser(c) = u}

RecordCount(u) ==
    Cardinality({i \in 1..Len(activeUsers) : activeUsers[i].id = u})

\* c is in its user's session set
Registered(c) ==
    SocketUser(c) \in DOMAIN userSessions /\ c \in userSessions[SocketUser(c)]

\* the positions of the userDisconnected messages for u in a sequence of messages
Departures(box, u) ==
    {i \in 1..Len(box) : box[i].ev = "userDisconnected" /\ box[i].body.userId = u}

RoomEvents == {"taskUpdated", "newComment", "userTyping", "userJoinedTask", "userLeftTask"}

\* C1: a presence record exists for a user id exactly when userSessions holds a
\* non-empty set for that id; no empty set is ever stored.
C1_PresenceIffSessions ==
    /\ \A u \in Users :
         MapHas(activeUsers, u) <=> (u \in DOMAIN userSessions /\ userSessions[u] # {})
    /\ \A u \in DOMAIN userSessions : userSessions[u] # {}

\* C1 witness: a sweep has evicted one user while another user's record stays
C1_Witness ==
    /\ last.op = "sweep"
    /\ Len(outbox) > 0
    /\ activeUsers # <<>>
    /\ DOMAIN userSessions # {}

C3_DepartureOnLastDisconnect ==
    [][ last'.op = "disconnect" =>
          LET c == last'.c
              u == SocketUser(c)
          IN  IF u \in DOMAIN userSessions /\ userSessions[u] = {c}
              THEN /\ Len(outbox') = 1
                   /\ Departures(outbox', u) = {1}
                   /\ outbox'[1].to = connected \ {c}
                   /\ ~MapHas(activeUsers', u)
                   /\ u \notin DOMAIN userSessions'
              ELSE /\ outbox' = <<>>
                   /\ activeUsers' = activeUsers
                   /\ DOMAIN userSessions' = DOMAIN userSessions
                   /\ \A v \in DOMAIN userSessions :
                        userSessions'[v] = IF v = u THEN userSessions[v] \ {c}
                                           ELSE userSessions[v] ]_vars

\* C3 witness: the last of a user's two connections has closed and the departure
\* broadcast is out
C3_Witness ==
    /\ last.op = "disconnect"
    /\ Len(outbox) = 1
    /\ outbox[1].ev = "userDisconnected"
    /\ \E c \in issued \ connected : c # last.c /\ SocketUser(c) = SocketUser(last.c)

\* C4: a valid taskUpdate of socket c for a room reaches every member of the room
\* other than c and never c, member or not.
C4_TaskUpdateToOthers ==
    (last.op = "taskUpdate" /\ TaskUpdateValid(last.arg)) =>
        /\ Len(outbox) = 1
        /\ outbox[1].ev = "taskUpdated"
        /\ outbox[1].to = Members(rooms, TaskRoom(last.arg.taskId)) \ {last.c}
        /\ last.c \notin outbox[1].to

\* C4 witness: the sender is a member of the room and another member got the update
C4_Witness ==
    /\ last.op = "taskUpdate"
    /\ TaskUpdateValid(last.arg)
    /\ last.c \in Members(rooms, TaskRoom(last.arg.taskId))
    /\ outbox[1].to # {}

\* C5 as claimed: a valid addComment reaches the sender and every other member of
\* the room, also when the sender has not joined the room.
C5_CommentToSenderAlways ==
    (last.op = "addComment" /\ AddCommentValid(last.arg)) =>
        /\ Len(outbox) = 1
        /\ outbox[1].ev = "newComment"
        /\ outbox[1].to = Members(rooms, TaskRoom(last.arg.taskId)) \cup {last.c}

\* C5 amended: a valid addComment reaches exactly the current members of the room,
\* the sender included when it is a member; a sender that has not joined the room
\* does not receive it.
C5_CommentToWholeRoom ==
    (last.op = "addComment" /\ AddCommentValid(last.arg)) =>
        /\ Len(outbox) = 1
        /\ outbox[1].ev = "newComment"
        /\ outbox[1].to = Members(rooms, TaskRoom(last.arg.taskId))
        /\ (last.c \in outbox[1].to <=> TaskRoom(last.arg.taskId) \in last.pre)

\* C5 witness: the sender is a member, gets its own comment, and so does another member
C5_Witness ==
    /\ last.op = "addComment"
    /\ AddCommentValid(last.arg)
    /\ last.c \in outbox[1].to
    /\ outbox[1].to # {last.c}

\* C6: a socket that has disconnected is a member of no room, and no room broadcast
\* has it in its audience.
C6_NoStaleMember ==
    \A c \in issued \ connected :
        /\ RoomsOf(c) = {}
        /\ \A i \in 1..Len(outbox) : outbox[i].ev \in RoomEvents => c \notin outbox[i].to

\* C6 witness: a socket that was in a task room has closed
C6_Witness ==
    /\ last.op = "disconnect"
    /\ \E r \in last.pre : r = TaskRoom(Str("1"))
    /\ Members(rooms, TaskRoom(Str("1"))) # {}

\* C7: a join of a room by a socket that is already a member leaves the membership
\* of every room as it was; after any join the room's members are the former members
\* and the socket.
C7_JoinIdempotent ==
    [][ last'.op = "joinTaskRoom" =>
          LET c == last'.c
              room == TaskRoom(last'.arg)
          IN  /\ Members(rooms', room) = Members(rooms, room) \cup {c}
              /\ (c \in Members(rooms, room) => rooms' = rooms)
              /\ Cardinality(Members(rooms', room)) <= Cardinality(Members(rooms, room)) + 1
      ]_vars

\* C7 witness: a socket has joined a room it was already in
C7_Witness ==
    /\ last.op = "joinTaskRoom"
    /\ TaskRoom(last.arg) \in last.pre
    /\ last.c \in Members(rooms, TaskRoom(last.arg))

\* C8 as claimed: a join by a socket that is already a member delivers no
\* userJoinedTask to anyone.
C8_NoDuplicateJoinNotice ==
    (last.op = "joinTaskRoom" /\ TaskRoom(last.arg) \in last.pre) =>
        \A i \in 1..Len(outbox) :
            outbox[i].ev = "userJoinedTask" => outbox[i].to = {}

\* C9: a sweep removes every record older than the timeout from activeUsers and
\* userSessions and emits one userDisconnected with reason timeout for it, to every
\* connected socket; and in every step the userDisconnected messages for a user are
\* one if the step removed the user's record and none otherwise, so that neither a
\* later sweep nor a later disconnect repeats a departure.
C9_OneTimeoutNotice ==
    [][ /\ last'.op = "sweep" =>
              \A u \in Users :
                  (MapHas(activeUsers, u)
                     /\ now - MapGet(activeUsers, u).connectedAt > Timeout) =>
                      /\ ~MapHas(activeUsers', u)
                      /\ u \notin DOMAIN userSessions'
                      /\ \E i \in 1..Len(outbox') :
                            /\ Departures(outbox', u) = {i}
                            /\ outbox'[i].body.reason = "timeout"
                            /\ outbox'[i].to = connected
        /\ \A u \in Users :
              Cardinality(Departures(outbox', u)) =
                  IF MapHas(activeUsers, u) /\ ~MapHas(activeUsers', u) THEN 1 ELSE 0
      ]_vars

\* C9 witness: the connection of a user the reaper has evicted has closed, and the
\* disconnect emitted nothing
C9_Witness ==
    /\ last.op = "disconnect"
    /\ outbox = <<>>
    /\ SocketsOf(SocketUser(last.c)) \cap connected = {}
    /\ now > Timeout

\* C10 as claimed: the reaper does not evict a user one of whose connections has
\* sent an event within the timeout; here, an updateStatus handled at the very
\* clock value of the sweep.
C10_ActiveUserNotReaped ==
    [][ (last.op = "updateStatus" /\ last'.op = "sweep"
            /\ MapHas(activeUsers, SocketUser(last.c))) =>
          MapHas(activeUsers', SocketUser(last.c)) ]_vars

\* a field that is missing or empty
Blank(x) == x \in {Undefined, Null, Str(""), EmptyObj}

\* C11 as claimed: a taskUpdate whose taskId, changes or type is missing or empty
\* gets one error event, to the sender only, and no taskUpdated goes out.
C11_BlankTaskUpdateRejected ==
    (last.op = "taskUpdate" /\ Destructures(last.arg)
        /\ (Blank(last.arg.taskId) \/ Blank(last.arg.changes) \/ Blank(last.arg.type))) =>
        /\ Len(outbox) = 1
        /\ outbox[1].ev = "error"
        /\ outbox[1].to = {last.c}

\* C12: an updateStatus whose value is none of online, away, busy, offline gets one
\* error event, to the sender only; activeUsers, and so the status, is as before and
\* no userStatusChanged goes out.
C12_InvalidStatusRejected ==
    [][ (last'.op = "updateStatus"
           /\ last'.arg.v \notin {"online", "away", "busy", "offline"}) =>
          /\ Len(outbox') = 1
          /\ outbox'[1].ev = "error"
          /\ outbox'[1].to = {last'.c}
          /\ activeUsers' = activeUsers ]_vars

\* C12 witness: "paused" was refused and the user's earlier status "away" stands
C12_Witness ==
    /\ last.op = "updateStatus"
    /\ last.arg.v = "paused"
    /\ MapHas(activeUsers, SocketUser(last.c))
    /\ MapGet(activeUsers, SocketUser(last.c)).status = "away"
    /\ Len(outbox) = 1
    /\ outbox[1].ev = "error"

\* C13 as claimed: no inbound event, whatever its payload, makes its handler throw.
C13_NoUncaughtException == ~uncaught

\* the characters of a text are all whitespace (none, for the empty text)
AllSpace(chars) == \A i \in 1..Len(chars) : chars[i] \in {" ", "\t", "\n"}

\* text is chars without its leading and trailing whitespace
Stripped(text, chars) ==
    /\ text # <<>>
    /\ text[1] \notin {" ", "\t", "\n"}
    /\ text[Len(text)] \notin {" ", "\t", "\n"}
    /\ \E i \in 1..Len(chars) :
          /\ i + Len(text) - 1 <= Len(chars)
          /\ text = SubSeq(chars, i, i + Len(text) - 1)
          /\ AllSpace(SubSeq(chars, 1, i - 1))
          /\ AllSpace(SubSeq(chars, i + Len(text), Len(chars)))

\* the comment of an addComment payload is missing, empty or only whitespace
BlankComment(x) ==
    IF x.t = "string" THEN AllSpace(x.chars) ELSE x \in {Undefined, Null}

Emitted(box, ev) == {i \in 1..Len(box) : box[i].ev = ev}

\* C15: a connection is registered only after authentication succeeded; a connection
\* attempt whose authentication fails is refused and changes no registry, presence or
\* room state and emits no userConnected.
C15_RegisteredOnlyAfterAuth ==
    [][ /\ (last'.op \in {"connection", "refused"} /\ last' # last) =>
              (last'.op = "connection" <=>
                  (last'.arg.token = "valid" /\ last'.arg.user = "active"))
        /\ last'.op = "refused" =>
              /\ activeUsers' = activeUsers
              /\ userSessions' = userSessions
              /\ rooms' = rooms
              /\ connected' = connected
              /\ Emitted(outbox', "userConnected") = {}
        /\ \A c \in Sockets :
              (\/ c \in connected' \ connected
               \/ c \in UNION {userSessions'[u] : u \in DOMAIN userSessions'}
                    \ UNION {userSessions[u] : u \in DOMAIN userSessions}
               \/ <<PersonalRoom(SocketUser(c)), c>> \in rooms' \ rooms)
              => /\ last'.op = "connection"
                 /\ last'.c = c
                 /\ last'.arg.token = "valid"
                 /\ last'.arg.user = "active" ]_vars

\* an inactive user with a valid token was just refused while others are connected
C15_Witness ==
    /\ last.op = "refused"
    /\ last.arg.token = "valid"
    /\ last.arg.user = "inactive"
    /\ connected # {}
    /\ last.c \notin connected
    /\ ~Registered(last.c)
    /\ outbox = <<>>

\* C16: userConnected is emitted exactly when the connection is the user's first, when
\* the user's session set goes from absent to non-empty; a further simultaneous
\* connection of a user who is already present emits no userConnected.
C16_ArrivalOnFirstConnectionOnly ==
    [][ (last'.op = "connection" /\ last' # last) =>
          ((Emitted(outbox', "userConnected") # {})
              <=> SocketUser(last'.c) \notin DOMAIN userSessions) ]_vars

\* C17: the connectedAt of a presence record is set when the record is created and
\* later connections of the same user leave it as it was.
C17_ConnectedAtKept ==
    [][ (/\ last'.op = "connection"
         /\ last' # last
         /\ MapHas(activeUsers, SocketUser(last'.c))) =>
          MapGet(activeUsers', SocketUser(last'.c)).connectedAt
              = MapGet(activeUsers, SocketUser(last'.c)).connectedAt ]_vars

\* the records of a presence map, as a set
Records(m) == {m[i] : i \in 1..Len(m)}

\* C18: on connect the activeUsers snapshot goes to the new connection only, and it
\* holds exactly the presence records of that moment: the records of the other users
\* as they were, and the connecting user's own record.
C18_SnapshotToNewConnectionOnly ==
    [][ (last'.op = "connection" /\ last' # last) =>
          /\ Cardinality(Emitted(outbox', "activeUsers")) = 1
          /\ \A i \in Emitted(outbox', "activeUsers") :
                /\ outbox'[i].to = {last'.c}
                /\ outbox'[i].body.users = activeUsers'
                /\ Records(outbox'[i].body.users)
                     = {r \in Records(activeUsers) : r.id # SocketUser(last'.c)}
                         \cup {PresenceRecord(last'.c)}
                /\ Len(outbox'[i].body.users)
                     = Cardinality(Records(outbox'[i].body.users)) ]_vars

\* a connection arrived while another user was connected and present
C18_Witness ==
    /\ last.op = "connection"
    /\ connected \ {last.c} # {}
    /\ Emitted(outbox, "activeUsers") = {2}
    /\ outbox[2].to = {last.c}
    /\ Len(outbox[2].body.users) = 2
    /\ \E i \in 1..2 : outbox[2].body.users[i].socketId = last.c

\* C19 as claimed: a valid updateStatus from connection c updates the one presence
\* record of c's user and goes as userStatusChanged to every other connected
\* connection, whatever rooms they are in, and not to c.
C19_StatusToAllOthers ==
    (last.op = "updateStatus" /\ last.arg.v \in {"online", "away", "busy", "offline"}) =>
        /\ RecordCount(SocketUser(last.c)) = 1
        /\ MapGet(activeUsers, SocketUser(last.c)).status = last.arg.v
        /\ Emitted(outbox, "userStatusChanged") = {1}
        /\ outbox[1].to = connected \ {last.c}

\* C20 as claimed: every valid updateStatus from an open connection leaves the status
\* recorded and a userStatusChanged broadcast sent, also when the reaper has evicted
\* the user's presence record while the connection stayed open.
C20_StatusRecordedAfterEviction ==
    (/\ last.op = "updateStatus"
     /\ last.arg.v \in {"online", "away", "busy", "offline"}
     /\ last.c \in connected) =>
        /\ MapHas(activeUsers, SocketUser(last.c))
        /\ \E i \in 1..Len(activeUsers) :
              activeUsers[i].id = SocketUser(last.c) /\ activeUsers[i].status = last.arg.v
        /\ Emitted(outbox, "userStatusChanged") # {}

\* C21: a disconnect notification for a connection that is not in its user's session
\* set (the user has no set, or the set does not hold the connection) does not throw,
\* changes no presence record, removes no other connection id and emits no departure.
C21_UnmatchedDisconnectNoOp ==
    [][ (/\ last'.op = "disconnect"
         /\ ~(SocketUser(last'.c) \in DOMAIN userSessions
                /\ last'.c \in userSessions[SocketUser(last'.c)])) =>
          /\ activeUsers' = activeUsers
          /\ userSessions' = userSessions
          /\ \A u \in Users : Departures(outbox', u) = {}
          /\ ~uncaught' ]_vars

\* a connection whose user the reaper had evicted has closed, others are connected
C21_Witness ==
    /\ last.op = "disconnect"
    /\ SocketUser(last.c) \notin DOMAIN userSessions
    /\ outbox = <<>>
    /\ connected # {}
    /\ activeUsers # <<>>
    /\ ~uncaught

\* C22 as claimed: every open connection id is in exactly one user's session set, its
\* owner's, in every reachable state, also after reaper sweeps.
C22_OpenConnectionInOwnSet ==
    \A c \in connected :
        /\ Registered(c)
        /\ \A u \in DOMAIN userSessions : c \in userSessions[u] => u = SocketUser(c)

\* user u has an open connection
Open(u) == SocketsOf(u) \cap connected # {}

C24_TypingWithoutRoomRejected ==
    (last.op = "typing" /\ Destructures(last.arg) /\ Blank(last.arg.taskId)) =>
        /\ Emitted(outbox, "userTyping") = {}
        /\ Emitted(outbox, "error") # {}
        /\ \A i \in 1..Len(outbox) : outbox[i].to = {last.c}

\* C25 as claimed: a joinTaskRoom with an empty or missing room id is rejected: the
\* sender enters no room, no userJoinedTask goes out and the sender gets an error.
C25_JoinWithoutRoomRejected ==
    (last.op = "joinTaskRoom" /\ Blank(last.arg)) =>
        /\ RoomsOf(last.c) = last.pre
        /\ Emitted(outbox, "userJoinedTask") = {}
        /\ Emitted(outbox, "error") # {}
        /\ \A i \in 1..Len(outbox) : outbox[i].to = {last.c}

\* the event of the step that just ran was not accepted by its handler
Invalid(l) ==
    CASE l.op = "taskUpdate"   -> ~TaskUpdateValid(l.arg)
      [] l.op = "addComment"   -> ~AddCommentValid(l.arg)
      [] l.op = "updateStatus" -> l.arg.v \notin {"online", "away", "busy", "offline"}
      [] OTHER                 -> FALSE

\* C26 as claimed: an invalid taskUpdate, addComment or updateStatus leaves activeUsers,
\* userSessions and every room's membership as they were, the sender's connection
\* stays open, the server keeps serving it, and no other connection receives a message.
C26_InvalidEventChangesNothing ==
    [][ Invalid(last') =>
          /\ activeUsers' = activeUsers
          /\ userSessions' = userSessions
          /\ rooms' = rooms
          /\ connected' = connected
          /\ last'.c \in connected'
          /\ ~uncaught'
          /\ \A i \in 1..Len(outbox') : outbox'[i].to \subseteq {last'.c} ]_vars

\* the fields of the sender that a message to other clients carries
SenderFields(msg) ==
    CASE msg.ev \in {"userConnected", "userJoinedTask", "userLeftTask", "userTyping"}
             -> DOMAIN msg.body.user
      [] msg.ev = "taskUpdated"       -> DOMAIN msg.body.updatedBy
      [] msg.ev = "newComment"        -> DOMAIN msg.body.comment.user
      [] msg.ev = "userStatusChanged" -> {"id"}
      [] OTHER                        -> {}

\* C27 as claimed: every message to other clients identifies its sender by at most
\* user id, display name and avatar; no payload carries the email or the connection id.
C27_SenderSummaryOnly ==
    \A i \in 1..Len(outbox) :
        outbox[i].ev \in {"userConnected", "userStatusChanged"} \cup RoomEvents =>
            SenderFields(outbox[i]) \subseteq {"id", "name", "avatar"}

\* C28 as claimed: two accepted addComment events are broadcast with different comment
\* ids, also when both are handled at the same clock millisecond; here, two accepted
\* comments handled one right after the other.
C28_CommentIdsUnique ==
    [][ (/\ Emitted(outbox, "newComment") = {1}
         /\ last'.op = "addComment"
         /\ Emitted(outbox', "newComment") = {1}) =>
          outbox'[1].body.comment.id # outbox[1].body.comment.id ]_vars

\* C29 as claimed: once SIGTERM has been handled the reaper timer is cancelled: no
\* further sweep runs and no timeout departure is emitted.
C29_NoSweepAfterShutdown ==
    [][ closing =>
          /\ last'.op # "sweep"
          /\ \A i \in 1..Len(outbox') :
                ~(outbox'[i].ev = "userDisconnected"
                   /\ "reason" \in DOMAIN outbox'[i].body) ]_vars

RestEvents == {"taskCreated", "taskUpdated", "taskDeleted"}

\* the task a REST request is about
RestTask(l) == IF l.op = "POST" THEN "1" ELSE l.arg.id

\* C30 as claimed: a REST task mutation is notified only after its change is committed
\* to the store, and the notification is dispatched with roomId = the task's id: it
\* reaches exactly the connections that are members of that task's room.
C30_RestNoticeToTaskRoom ==
    [][ (last'.op \in {"POST", "PUT", "DELETE"} /\ tasks' # tasks) =>
          /\ \E i \in 1..Len(outbox') : outbox'[i].ev \in RestEvents
          /\ \A i \in 1..Len(outbox') :
                outbox'[i].ev \in RestEvents =>
                    outbox'[i].to = Members(rooms', TaskRoom(Str(RestTask(last')))) ]_vars

\* C31: a reaper sweep changes only activeUsers and userSessions: the rooms of the
\* evicted user's open connections stay as they were, so after the eviction these
\* connections still receive room broadcasts and their taskUpdate, addComment and
\* typing events still reach the room.
C31_EvictionKeepsRooms ==
    [][ /\ last'.op = "sweep" => (rooms' = rooms /\ connected' = connected)
        /\ (last'.op \in {"taskUpdate", "typing"} /\ ~uncaught') =>
              /\ Len(outbox') = 1
              /\ outbox'[1].ev \in {"taskUpdated", "userTyping"}
              /\ outbox'[1].to
                   = {c \in connected : <<"task_1", c>> \in rooms} \ {last'.c}
        /\ (last'.op = "addComment" /\ ~uncaught') =>
              /\ Len(outbox') = 1
              /\ outbox'[1].ev = "newComment"
              /\ outbox'[1].to = {c \in connected : <<"task_1", c>> \in rooms}
        /\ \A c \in connected : <<PersonalRoom(SocketUser(c)), c>> \in rooms ]_vars

\* an evicted user's connection has sent a taskUpdate, and it reached another evicted
\* user's connection in the room
C31_Witness ==
    /\ last.op = "taskUpdate"
    /\ activeUsers = <<>>
    /\ last.c \in connected
    /\ <<"task_1", last.c>> \in rooms
    /\ Len(outbox) = 1
    /\ outbox[1].ev = "taskUpdated"
    /\ outbox[1].to # {}
    /\ \A c \in outbox[1].to : ~MapHas(activeUsers, SocketUser(c))

C33_StatusChangesByOwnUpdateOnly ==
    [][ \A u \in Users :
          (/\ MapHas(activeUsers, u)
           /\ MapHas(activeUsers', u)
           /\ MapGet(activeUsers', u).status # MapGet(activeUsers, u).status) =>
              /\ last'.op = "updateStatus"
              /\ SocketUser(last'.c) = u
              /\ last'.arg.v \in {"online", "away", "busy", "offline"} ]_vars

\* C34 as claimed: in every reachable state the socketId of a user's presence record is
\* in that user's session set.
C34_RecordSocketInSessions ==
    \A i \in 1..Len(activeUsers) :
        /\ activeUsers[i].id \in DOMAIN userSessions
        /\ activeUsers[i].socketId \in userSessions[activeUsers[i].id]

\* C35: the room user_<id> holds only connections authenticated as that user, and every
\* open connection stays in its own user's room: no joinTaskRoom or leaveTaskRoom with
\* a room id of the client's choice puts a connection into, or takes one out of,
\* a personal channel.
C35_PersonalChannelOwnOnly ==
    /\ \A rc \in rooms : \A u \in Users :
          rc[1] = "user_" \o u => SocketUser(rc[2]) = u
    /\ \A c \in connected : <<"user_" \o SocketUser(c), c>> \in rooms

\* a connection of u1 asked to join "user_u2" while u2 is connected
C35_Witness ==
    /\ last.op = "joinTaskRoom"
    /\ last.arg = Str("user_u2")
    /\ SocketUser(last.c) = "u1"
    /\ <<"user_u2", "s3">> \in rooms
    /\ <<"task_user_u2", last.c>> \in rooms
    /\ <<"user_u1", last.c>> \in rooms
    /\ Len(outbox) = 1

\* C36 as claimed: an error response (4xx or 5xx) of the REST create, update and delete
\* handlers means the request left the task store and the user statistics unchanged;
\* a committed mutation is answered with success, the notification step included;
\* here, for the requests during which no database operation fails.
C36_ErrorResponseMeansNoChange ==
    [][ (/\ last'.op \in {"POST", "PUT", "DELETE"}
         /\ last'.arg.fault = "none"
         /\ last'.status >= 400) =>
          (tasks' = tasks /\ stats' = stats) ]_vars

\* a PUT or DELETE for a stored task by a requester who is neither its creator nor admin
Foreign(l) ==
    /\ l.op \in {"PUT", "DELETE"}
    /\ l.arg.id \in DOMAIN tasks
    /\ tasks[l.arg.id].createdBy # l.arg.user
    /\ l.arg.user # "u2"

====
